---- MODULE Spec2Model ----
(***************************************************************************)
(* Branch-aware workflow scheduler (app/scheduler.py, app/state.py,        *)
(* app/workers.py, app/main.py) and the tiled task routines                *)
(* (app/instanseg_tasks.py).                                               *)
(*                                                                         *)
(* The program is one asyncio event loop: a task runs until an await.      *)
(* Code between two awaits is one action; entering state_lock is an await  *)
(* at which a handler may be suspended while other tasks run (spec section *)
(* 5, suspension point (d)), so a handler that writes a job record and     *)
(* then enters the lock is two actions.                                    *)
(*                                                                         *)
(* Job ids are 1, 2, ... in creation order (the code draws fresh uuids).   *)
(* Branch labels and user ids are opaque strings compared for equality     *)
(* only, so they are numbered by first appearance: branch b is the b-th    *)
(* key inserted into the BRANCH_QUEUES dict, whose iteration order is      *)
(* insertion order.                                                        *)
(***************************************************************************)
EXTENDS Integers, Sequences, FiniteSets, TLC

\* ---- bounds of the model ----
MaxJobs == 3
MaxFairJobs == 2

MaxCols == 5
MaxSize == 1024

MaxWorkflowJobs == 2
MaxRequests == 2

\* ---- program constants ----
MAX_WORKERS == 4
ACTIVE_USERS_LIMIT == 3
TILE_SIZE == 512
TILE_OVERLAP == 64
MAX_CONCURRENT_INFERENCE_Unbounded == MaxCols + 1

MAX_CONCURRENT_INFERENCE == 4

VARIABLES
    JOBS,           \* state.JOBS: job id -> job record (a sequence, id = index)
    BRANCH_QUEUES,  \* state.BRANCH_QUEUES: branch -> FIFO list of job ids
    RUNNING_JOBS,   \* state.RUNNING_JOBS: set of job ids
    cancelling,     \* cancel_job requests suspended at main.py line 193
    finishing,      \* run_job tasks suspended at workers.py line 29
    clients,        \* the requests the clients send: how many jobs, of how many users
    task,           \* the task routine of job 1, where it is followed tile by tile
    WORKFLOWS,      \* state.WORKFLOWS: the registered workflows
    creating        \* create_workflow requests suspended at a lock entry

vars == <<JOBS, BRANCH_QUEUES, RUNNING_JOBS, cancelling, finishing, clients, task,
          WORKFLOWS, creating>>

Min(a, b) == IF a <= b THEN a ELSE b

\* The submitted load:
\*   up to n jobs of up to ACTIVE_USERS_LIMIT + 1 users on any branches;
\*   ACTIVE_USERS_LIMIT + 1 users with one job each, on distinct branches;
\*   MAX_WORKERS + 1 jobs of a single user, on distinct branches
ClientsUpTo(n) ==
    { [jobs |-> n, users |-> ACTIVE_USERS_LIMIT + 1,
       new_user |-> FALSE, new_branch |-> FALSE],
      [jobs |-> ACTIVE_USERS_LIMIT + 1, users |-> ACTIVE_USERS_LIMIT + 1,
       new_user |-> TRUE, new_branch |-> TRUE],
      [jobs |-> MAX_WORKERS + 1, users |-> 1,
       new_user |-> FALSE, new_branch |-> TRUE] }

Clients == ClientsUpTo(MaxJobs)

Max(a, b) == IF a >= b THEN a ELSE b

JobIds == 1..Max(Max(MaxJobs, MaxFairJobs), MAX_WORKERS + 1)
Users == 1..(ACTIVE_USERS_LIMIT + 1)
Branches == JobIds

\* Job.progress is a float: the exact quotient num / den
Progress(num, den) == [num |-> num, den |-> den]

Leq(p, q) == p.num * q.den <= q.num * p.den

Same(p, q) == p.num * q.den = q.num * p.den

\* models.Job as constructed by create_workflow
NewJob(u, b) ==
    [user_id |-> u, branch |-> b, status |-> "PENDING",
     progress |-> Progress(0, 1), error_message |-> "None"]

\* no task routine is followed
NoTask == [pc |-> "none"]

\* dict.get: the record, or None
HasJob(id) == id \in DOMAIN JOBS

KnownUsers == {JOBS[i].user_id : i \in DOMAIN JOBS}

Start(load) ==
    /\ JOBS = <<>>
    /\ BRANCH_QUEUES = <<>>
    /\ RUNNING_JOBS = {}
    /\ cancelling = {}
    /\ finishing = {}
    /\ clients \in load
    /\ WORKFLOWS = {}
    /\ creating = <<>>

Init == Start(Clients) /\ task = NoTask

\* enqueue_job line 63: list.append
Enqueue_Front(queue, id) == <<id>> \o queue

Enqueue(queue, id) == Append(queue, id)

\* Workflow(...) line 97: a fresh workflow_id, here the number of the request
NewWorkflowId == Cardinality(WORKFLOWS) + Len(creating) + 1

\* the workflow as add_workflow registers it; requested is len(request.jobs)
NewWorkflow(workflow_id, user_id, jobs, requested) ==
    [workflow_id |-> workflow_id, user_id |-> user_id, jobs |-> jobs,
     requested |-> requested]

\* create_workflow for a request of one job: Workflow(...), Job(...), add_job,
\* enqueue_job, add_workflow
SubmitJob(u, b) ==
    /\ Len(JOBS) < clients.jobs
    /\ u <= Min(Cardinality(KnownUsers) + 1, clients.users)
    /\ clients.new_user => u = Cardinality(KnownUsers) + 1
    /\ clients.new_branch => b = Len(BRANCH_QUEUES) + 1
    /\ b <= Len(BRANCH_QUEUES) + 1
    /\ LET id == Len(JOBS) + 1
           queues == IF b \in DOMAIN BRANCH_QUEUES
                     THEN BRANCH_QUEUES
                     ELSE Append(BRANCH_QUEUES, <<>>)
       IN  /\ JOBS' = Append(JOBS, NewJob(u, b))
           /\ BRANCH_QUEUES' = [queues EXCEPT ![b] = Enqueue(@, id)]
           /\ WORKFLOWS' = WORKFLOWS \cup {NewWorkflow(NewWorkflowId, u, <<id>>, 1)}
    /\ UNCHANGED <<RUNNING_JOBS, cancelling, finishing, clients, task, creating>>

\* scheduler_loop lines 22-27: users of the jobs in the running set
ActiveUsersOf(running) ==
    {JOBS[r].user_id : r \in {x \in running : HasJob(x)}}

\* scheduler_loop lines 30, 68, 77: the global worker limit
WorkersFull_Above(running) == Cardinality(running) > MAX_WORKERS

WorkersFull_Early(running) == Cardinality(running) >= MAX_WORKERS - 1

WorkersFull(running) == Cardinality(running) >= MAX_WORKERS

\* scheduler_loop lines 39-45: some running job has this branch
BranchBusy_Never(branch) == FALSE

BranchBusy(branch) ==
    \E running_id \in RUNNING_JOBS :
        HasJob(running_id) /\ JOBS[running_id].branch = branch

\* scheduler_loop line 58: only PENDING jobs are considered
Stale_Never(job) == FALSE

Stale(job) == job.status # "PENDING"

\* scheduler_loop line 64: admitting this user would open a 4th user slot
UserBlocked(user_id, current_active_users) ==
    /\ user_id \notin current_active_users
    /\ Cardinality(current_active_users) >= ACTIVE_USERS_LIMIT

\* scheduler_loop lines 35-72: the loop over BRANCH_QUEUES.items(), from branch
\* on; queues carries the pops of stale heads, jobs_to_start the selection
RECURSIVE SelectHeads(_, _, _, _)
SelectHeads(branch, queues, jobs_to_start, current_active_users) ==
    IF branch > Len(queues)
    THEN [queues |-> queues, jobs_to_start |-> jobs_to_start]
    ELSE LET queue == queues[branch]
             next_job_id == Head(queue)
             popped == [queues EXCEPT ![branch] = Tail(@)]
         IN  IF queue = <<>>
             THEN SelectHeads(branch + 1, queues, jobs_to_start, current_active_users)
             ELSE IF BranchBusy(branch)
             THEN SelectHeads(branch + 1, queues, jobs_to_start, current_active_users)
             ELSE IF ~HasJob(next_job_id)
             THEN SelectHeads(branch + 1, popped, jobs_to_start, current_active_users)
             ELSE IF Stale(JOBS[next_job_id])
             THEN SelectHeads(branch + 1, popped, jobs_to_start, current_active_users)
             ELSE IF UserBlocked(JOBS[next_job_id].user_id, current_active_users)
             THEN SelectHeads(branch + 1, queues, jobs_to_start, current_active_users)
             ELSE IF WorkersFull(RUNNING_JOBS)
             THEN [queues |-> queues, jobs_to_start |-> jobs_to_start]
             ELSE SelectHeads(branch + 1, queues,
                              Append(jobs_to_start, next_job_id),
                              current_active_users)

\* scheduler_loop lines 75-90: start the selected jobs, from the i-th on
RECURSIVE StartJobs_NoPop(_, _, _, _, _)
StartJobs_NoPop(jobs_to_start, i, jobs, queues, running) ==
    IF i > Len(jobs_to_start) \/ WorkersFull(running)
    THEN [jobs |-> jobs, queues |-> queues, running |-> running]
    ELSE LET id == jobs_to_start[i]
         IN  StartJobs_NoPop(jobs_to_start, i + 1,
                             [jobs EXCEPT ![id].status = "RUNNING"],
                             queues,
                             running \cup {id})

RECURSIVE StartJobs(_, _, _, _, _)
StartJobs(jobs_to_start, i, jobs, queues, running) ==
    IF i > Len(jobs_to_start) \/ WorkersFull(running)
    THEN [jobs |-> jobs, queues |-> queues, running |-> running]
    ELSE LET id == jobs_to_start[i]
             branch == jobs[id].branch
         IN  StartJobs(jobs_to_start, i + 1,
                       [jobs EXCEPT ![id].status = "RUNNING"],
                       IF queues[branch] # <<>> /\ Head(queues[branch]) = id
                       THEN [queues EXCEPT ![branch] = Tail(@)]
                       ELSE queues,
                       running \cup {id})

\* scheduler_loop, one cycle (the body of the while loop under state_lock)
SchedulerCycle ==
    IF BRANCH_QUEUES = <<>> \/ WorkersFull(RUNNING_JOBS)
    THEN UNCHANGED vars
    ELSE LET selected == SelectHeads(1, BRANCH_QUEUES, <<>>,
                                     ActiveUsersOf(RUNNING_JOBS))
             started == StartJobs(selected.jobs_to_start, 1, JOBS,
                                  selected.queues, RUNNING_JOBS)
         IN  /\ JOBS' = started.jobs
             /\ BRANCH_QUEUES' = started.queues
             /\ RUNNING_JOBS' = started.running
             /\ UNCHANGED <<cancelling, finishing, clients, task, WORKFLOWS, creating>>

\* list.remove: drop the first occurrence of id
Remove_Nothing(queue, id) == queue

Remove_Head(queue, id) == Tail(queue)

RECURSIVE Remove(_, _)
Remove(queue, id) ==
    IF queue = <<>> THEN <<>>
    ELSE IF Head(queue) = id THEN Tail(queue)
    ELSE <<Head(queue)>> \o Remove(Tail(queue), id)

InQueue(queue, id) == \E k \in DOMAIN queue : queue[k] = id

\* cancel_job line 183: only PENDING jobs can be cancelled
Cancellable_Always(job) == TRUE

Cancellable_WhileRunning(job) == job.status \in {"PENDING", "RUNNING"}

Cancellable(job) == job.status = "PENDING"

\* cancel_job lines 177-190: look the job up, check owner and status (404, 400:
\* nothing changes), set CANCELLED
CancelJob(job_id, user_id) ==
    /\ HasJob(job_id)
    /\ user_id \in KnownUsers
    /\ IF JOBS[job_id].user_id = user_id /\ Cancellable(JOBS[job_id])
       THEN /\ JOBS' = [JOBS EXCEPT ![job_id].status = "CANCELLED"]
            /\ cancelling' = cancelling \cup {job_id}
       ELSE UNCHANGED <<JOBS, cancelling>>
    /\ UNCHANGED <<BRANCH_QUEUES, RUNNING_JOBS, finishing, clients, task, WORKFLOWS, creating>>

\* cancel_job lines 193-198: under the lock, remove the id from its branch queue
CancelRemove(job_id) ==
    /\ job_id \in cancelling
    /\ LET branch == JOBS[job_id].branch
       IN  BRANCH_QUEUES' =
               IF branch \in DOMAIN BRANCH_QUEUES
                  /\ InQueue(BRANCH_QUEUES[branch], job_id)
               THEN [BRANCH_QUEUES EXCEPT ![branch] = Remove(@, job_id)]
               ELSE BRANCH_QUEUES
    /\ cancelling' = cancelling \ {job_id}
    /\ UNCHANGED <<JOBS, RUNNING_JOBS, finishing, clients, task, WORKFLOWS, creating>>

\* run_job lines 8-27: the task routine returns or raises, and the status is set
RunJobEnd(job_id, raised) ==
    /\ job_id \in RUNNING_JOBS
    /\ job_id \notin finishing
    /\ JOBS' = IF raised
               THEN [JOBS EXCEPT ![job_id].status = "FAILED",
                                 ![job_id].error_message = "str(e)"]
               ELSE IF JOBS[job_id].status \notin {"FAILED", "CANCELLED"}
               THEN [JOBS EXCEPT ![job_id].status = "SUCCEEDED",
                                 ![job_id].progress = Progress(100, 1)]
               ELSE JOBS
    /\ finishing' = finishing \cup {job_id}
    /\ UNCHANGED <<BRANCH_QUEUES, RUNNING_JOBS, cancelling, clients, task, WORKFLOWS, creating>>

\* run_job lines 28-31: the finally block, under the lock, frees the running slot
RunJobRelease_Keep(job_id) ==
    /\ job_id \in finishing
    /\ finishing' = finishing \ {job_id}
    /\ UNCHANGED <<JOBS, BRANCH_QUEUES, RUNNING_JOBS, cancelling, clients, task, WORKFLOWS, creating>>

RunJobRelease_OnSuccess(job_id) ==
    /\ job_id \in finishing
    /\ RUNNING_JOBS' = IF JOBS[job_id].status = "SUCCEEDED"
                       THEN RUNNING_JOBS \ {job_id}
                       ELSE RUNNING_JOBS
    /\ finishing' = finishing \ {job_id}
    /\ UNCHANGED <<JOBS, BRANCH_QUEUES, cancelling, clients, task, WORKFLOWS, creating>>

RunJobRelease(job_id) ==
    /\ job_id \in finishing
    /\ RUNNING_JOBS' = IF job_id \in RUNNING_JOBS
                       THEN RUNNING_JOBS \ {job_id}
                       ELSE RUNNING_JOBS
    /\ finishing' = finishing \ {job_id}
    /\ UNCHANGED <<JOBS, BRANCH_QUEUES, cancelling, clients, task, WORKFLOWS, creating>>

Next ==
    \/ \E u \in Users, b \in Branches : SubmitJob(u, b)
    \/ SchedulerCycle
    \/ \E j \in JobIds, u \in Users : CancelJob(j, u)
    \/ \E j \in JobIds : CancelRemove(j)
    \/ \E j \in JobIds, raised \in BOOLEAN : RunJobEnd(j, raised)
    \/ \E j \in JobIds : RunJobRelease(j)

Spec == Init /\ [][Next]_vars

\* The event loop runs every task that is ready: the scheduler loop wakes from its
\* sleep, and a handler waiting to enter state_lock enters it.
LoopFairness ==
    /\ WF_vars(SchedulerCycle)
    /\ \A j \in JobIds : WF_vars(CancelRemove(j))
    /\ \A j \in JobIds : WF_vars(RunJobRelease(j))

FairInit == Start(ClientsUpTo(MaxFairJobs)) /\ task = NoTask

\* the scheduler under a fair event loop; a task routine may run forever
FairSpec == FairInit /\ [][Next]_vars /\ LoopFairness

\* the same, and every started task routine returns or raises
TerminatingSpec ==
    /\ FairInit /\ [][Next]_vars
    /\ LoopFairness
    /\ \A j \in JobIds : WF_vars(\E raised \in BOOLEAN : RunJobEnd(j, raised))

(***************************************************************************)
(* The task routines, followed tile by tile for one job (job 1).  Every    *)
(* write of job.progress is a step of its own.                             *)
(***************************************************************************)

\* generate_tiles lines 54-57: the tiles of the row at y, from x on
RECURSIVE TilesOfRow(_, _, _, _, _, _)
TilesOfRow(x, y, h, width, tile_size, step) ==
    IF x < width
    THEN <<[x |-> x, y |-> y, w |-> Min(tile_size, width - x), h |-> h]>>
         \o TilesOfRow(x + step, y, h, width, tile_size, step)
    ELSE <<>>

\* generate_tiles lines 51-58: the rows from y on
RECURSIVE TilesFrom(_, _, _, _, _)
TilesFrom(y, width, height, tile_size, step) ==
    IF y < height
    THEN TilesOfRow(0, y, Min(tile_size, height - y), width, tile_size, step)
         \o TilesFrom(y + step, width, height, tile_size, step)
    ELSE <<>>

generate_tiles_NoOverlap(width, height, tile_size, overlap) ==
    TilesFrom(0, width, height, tile_size, tile_size)

generate_tiles(width, height, tile_size, overlap) ==
    TilesFrom(0, width, height, tile_size, tile_size - overlap)

JobTypes == {"CELL_SEGMENTATION", "TISSUE_MASK"}

\* slide.dimensions: widths at the tile boundaries, up to MaxCols columns of
\* tiles; an image of height 0 has no tiles, one of height 1 a single row
ImageWidths ==
    {c * (TILE_SIZE - TILE_OVERLAP) + d : c \in 0..(MaxCols - 1), d \in {0, 1}}

ImageHeights == {0, 1}

\* indices of the tiles of these images
TileIds == 1..MaxCols

\* the job's type and image, and the locals of the routine before it runs
NewTask(job_type, width, height) ==
    [pc |-> "created", job_type |-> job_type, width |-> width, height |-> height,
     total_tiles |-> 0,
     next |-> 1,               \* index of the tile the for loop is at
     tiles_processed |-> 0,
     pending_tasks |-> {},     \* tiles whose inference task is in pending_tasks
     done |-> {},              \* of these, the tasks that returned a result
     failed |-> {},            \* of these, the tasks that returned an exception
     waiting |-> "no",         \* suspended in asyncio.wait: FIRST_COMPLETED, ALL_COMPLETED
     polygons |-> {},          \* tiles whose polygons are in the accumulator
     background |-> {},        \* tiles skipped by the tissue test (line 209)
     logged |-> {},            \* tiles reported by logging.error (lines 148, 234)
     artifact |-> "none",
     raised_at |-> "none"]     \* where the exception that left the routine arose

TaskJob == 1

OneJob == {[jobs |-> 1, users |-> 1, new_user |-> FALSE, new_branch |-> FALSE]}

TaskInit ==
    /\ Start(OneJob)
    /\ task \in {NewTask(t, w, h) : t \in JobTypes, w \in ImageWidths, h \in ImageHeights}

\* the routine of job 1 runs: run_job was started and has not ended
TaskRuns ==
    /\ TaskJob \in RUNNING_JOBS
    /\ TaskJob \notin finishing
    /\ JOBS[TaskJob].status = "RUNNING"

\* instanseg_tasks lines 192, 196, 211, 236
TileProgress(tiles_processed, total_tiles) ==
    IF tiles_processed * 100 <= 100 * total_tiles
    THEN Progress(tiles_processed * 100, total_tiles)
    ELSE Progress(100, 1)

\* instanseg_tasks lines 191, 195, 210, 235: tiles_processed += 1
Counted_Twice(tiles_processed) == tiles_processed + 2

Counted(tiles_processed) == tiles_processed + 1

\* run_job lines 10-14 and the head of either routine (lines 125-133, 258-266):
\* open the slide (an error raises out of the routine), tile the image, return
\* at once when there is no tile
TaskOpen(opened) ==
    /\ TaskRuns
    /\ task.pc = "created"
    /\ LET total == Len(generate_tiles(task.width, task.height, TILE_SIZE, TILE_OVERLAP))
       IN  IF ~opened
           THEN /\ task' = [task EXCEPT !.pc = "raised", !.raised_at = "open"]
                /\ UNCHANGED JOBS
           ELSE IF total = 0
           THEN /\ task' = [task EXCEPT !.pc = "returned"]
                /\ JOBS' = [JOBS EXCEPT ![TaskJob].progress = Progress(100, 1)]
           ELSE /\ task' = [task EXCEPT !.pc = "tiles", !.total_tiles = total]
                /\ UNCHANGED JOBS
    /\ UNCHANGED <<BRANCH_QUEUES, RUNNING_JOBS, cancelling, finishing, clients, WORKFLOWS, creating>>

CellOutcomes == {"read_error", "tissue_error", "background", "tissue"}

\* instanseg_process_wsi lines 201-236, one iteration of the for loop: the tile
\* is skipped and counted (read failed, tissue test failed or found background),
\* or submitted for inference; at MAX_CONCURRENT_INFERENCE pending tasks the
\* routine waits in drain_pending for the first to complete
CellTile(outcome) ==
    /\ TaskRuns
    /\ task.pc = "tiles" /\ task.job_type = "CELL_SEGMENTATION"
    /\ task.waiting = "no"
    /\ task.next <= task.total_tiles
    /\ IF outcome = "tissue"
       THEN /\ task' = [task EXCEPT
                           !.pending_tasks = @ \cup {task.next},
                           !.next = @ + 1,
                           !.waiting =
                               IF Cardinality(task.pending_tasks \cup {task.next})
                                      >= MAX_CONCURRENT_INFERENCE
                               THEN "FIRST_COMPLETED" ELSE "no"]
            /\ UNCHANGED JOBS
       ELSE /\ task' = [task EXCEPT
                           !.tiles_processed = Counted(@),
                           !.next = @ + 1,
                           !.background = IF outcome = "background"
                                          THEN @ \cup {task.next} ELSE @,
                           !.logged = IF outcome = "background"
                                      THEN @ ELSE @ \cup {task.next}]
            /\ JOBS' = [JOBS EXCEPT ![TaskJob].progress =
                           TileProgress(Counted(task.tiles_processed), task.total_tiles)]
    /\ UNCHANGED <<BRANCH_QUEUES, RUNNING_JOBS, cancelling, finishing, clients, WORKFLOWS, creating>>

\* infer_tile lines 141-149: an inference task completes, with a result or with
\* an exception, while the routine is suspended
InferTile(tile, ok) ==
    /\ TaskRuns
    /\ task.waiting # "no"
    /\ tile \in task.pending_tasks \ (task.done \cup task.failed)
    /\ task' = IF ok THEN [task EXCEPT !.done = @ \cup {tile}]
                     ELSE [task EXCEPT !.failed = @ \cup {tile},
                                       !.logged = @ \cup {tile}]
    /\ UNCHANGED <<JOBS, BRANCH_QUEUES, RUNNING_JOBS, cancelling, finishing, clients, WORKFLOWS, creating>>

\* the value of tiles_processed after counting each task of the done set once
RECURSIVE CountedAll(_, _)
CountedAll(tiles_processed, n) ==
    IF n = 0 THEN tiles_processed ELSE CountedAll(Counted(tiles_processed), n - 1)

\* drain_pending lines 178-189: the accumulator after the polygons of the tasks
\* that returned a result are appended
Collected_Replaced(polygons, done) == done

Collected(polygons, done) == polygons \cup done

\* drain_pending lines 157-199: asyncio.wait returns, the completed tasks are
\* taken off pending_tasks, their polygons collected, each counted once
DrainPending ==
    /\ TaskRuns
    /\ \/ task.waiting = "FIRST_COMPLETED" /\ task.done \cup task.failed # {}
       \/ task.waiting = "ALL_COMPLETED"
          /\ task.done \cup task.failed = task.pending_tasks
    /\ LET done_set == task.done \cup task.failed
           processed == CountedAll(task.tiles_processed, Cardinality(done_set))
       IN  /\ task' = [task EXCEPT
                          !.polygons = Collected(@, task.done),
                          !.tiles_processed = processed,
                          !.pending_tasks = @ \ done_set,
                          !.done = {}, !.failed = {},
                          !.waiting = "no",
                          !.pc = IF task.pc = "drain" THEN "write" ELSE @]
           /\ JOBS' = [JOBS EXCEPT ![TaskJob].progress =
                          TileProgress(processed, task.total_tiles)]
    /\ UNCHANGED <<BRANCH_QUEUES, RUNNING_JOBS, cancelling, finishing, clients, WORKFLOWS, creating>>

\* instanseg_process_wsi line 239: after the last tile, drain_pending(force=True)
\* returns at once when nothing is pending, else waits for all tasks
CellLoopEnd ==
    /\ TaskRuns
    /\ task.pc = "tiles" /\ task.job_type = "CELL_SEGMENTATION"
    /\ task.waiting = "no"
    /\ task.next > task.total_tiles
    /\ task' = IF task.pending_tasks = {}
               THEN [task EXCEPT !.pc = "write"]
               ELSE [task EXCEPT !.pc = "drain", !.waiting = "ALL_COMPLETED"]
    /\ UNCHANGED <<JOBS, BRANCH_QUEUES, RUNNING_JOBS, cancelling, finishing, clients, WORKFLOWS, creating>>

\* generate_tissue_mask lines 270-290, one iteration: a failed read raises out
\* of the routine; else the tile is recorded and progress = (i + 1) / total * 100
MaskTile(read) ==
    /\ TaskRuns
    /\ task.pc = "tiles" /\ task.job_type = "TISSUE_MASK"
    /\ task.next <= task.total_tiles
    /\ IF ~read
       THEN /\ task' = [task EXCEPT !.pc = "raised", !.raised_at = "tile_read"]
            /\ UNCHANGED JOBS
       ELSE /\ task' = [task EXCEPT
                           !.tiles_processed = task.next,
                           !.next = @ + 1,
                           !.pc = IF task.next = task.total_tiles THEN "write" ELSE @]
            /\ JOBS' = [JOBS EXCEPT ![TaskJob].progress =
                           Progress(task.next * 100, task.total_tiles)]
    /\ UNCHANGED <<BRANCH_QUEUES, RUNNING_JOBS, cancelling, finishing, clients, WORKFLOWS, creating>>

WriteOutcomes == {"mkdir_error", "write_error", "written"}

\* lines 243-248 and 292-296: create results/, write the artifact; an error
\* raises out of the routine
WriteArtifact(outcome) ==
    /\ TaskRuns
    /\ task.pc = "write"
    /\ task' = [task EXCEPT
                   !.pc = IF outcome = "written" THEN "returned" ELSE "raised",
                   !.artifact = IF outcome = "mkdir_error" THEN @
                                ELSE IF outcome = "write_error" THEN "partial"
                                ELSE "written",
                   !.raised_at = IF outcome = "mkdir_error" THEN "mkdir"
                                 ELSE IF outcome = "write_error" THEN "write"
                                 ELSE @]
    /\ UNCHANGED <<JOBS, BRANCH_QUEUES, RUNNING_JOBS, cancelling, finishing, clients, WORKFLOWS, creating>>

\* run_job lines 21-27, once the routine has returned or raised
TaskEnd ==
    /\ task.pc \in {"returned", "raised"}
    /\ RunJobEnd(TaskJob, task.pc = "raised")

TaskNext ==
    \/ \E u \in Users, b \in Branches : SubmitJob(u, b)
    \/ SchedulerCycle
    \/ \E j \in JobIds, u \in Users : CancelJob(j, u)
    \/ \E j \in JobIds : CancelRemove(j)
    \/ \E opened \in BOOLEAN : TaskOpen(opened)
    \/ \E outcome \in CellOutcomes : CellTile(outcome)
    \/ \E tile \in TileIds, ok \in BOOLEAN : InferTile(tile, ok)
    \/ DrainPending
    \/ CellLoopEnd
    \/ \E read \in BOOLEAN : MaskTile(read)
    \/ \E outcome \in WriteOutcomes : WriteArtifact(outcome)
    \/ TaskEnd
    \/ \E j \in JobIds : RunJobRelease(j)

TaskSpec == TaskInit /\ [][TaskNext]_vars

(***************************************************************************)
(* generate_tiles on its own: the slide dimensions are drawn, then tiled.   *)
(***************************************************************************)

\* slide dimensions up to MaxSize pixels, around the multiples of the step and
\* of the tile size
ImageSizes ==
    {n \in 0..MaxSize :
        \/ n % (TILE_SIZE - TILE_OVERLAP) \in {0, 1, TILE_SIZE - TILE_OVERLAP - 1}
        \/ n % TILE_SIZE \in {0, 1, TILE_SIZE - 1}}

TilesInit ==
    /\ Start(OneJob)
    /\ task \in {[pc |-> "dimensions", width |-> w, height |-> h, tiles |-> <<>>] :
                    w \in ImageSizes, h \in ImageSizes}

\* lines 129, 262: tiles = generate_tiles(width, height, TILE_SIZE, TILE_OVERLAP)
Tiling ==
    /\ task.pc = "dimensions"
    /\ task' = [task EXCEPT
                   !.pc = "tiled",
                   !.tiles = generate_tiles(task.width, task.height,
                                            TILE_SIZE, TILE_OVERLAP)]
    /\ UNCHANGED <<JOBS, BRANCH_QUEUES, RUNNING_JOBS, cancelling, finishing, clients, WORKFLOWS, creating>>

TilesSpec == TilesInit /\ [][Tiling]_vars

(***************************************************************************)
(* create_workflow step by step: a request of several jobs, suspended at    *)
(* each entry to state_lock (add_job, enqueue_job, add_workflow).           *)
(***************************************************************************)

\* the load of the requests: MaxWorkflowJobs jobs in all, of one user, in up to
\* MaxWorkflowJobs workflows of up to MaxWorkflowJobs jobs each
WorkflowClients ==
    {[jobs |-> MaxWorkflowJobs, users |-> 1, new_user |-> FALSE, new_branch |-> FALSE]}

MaxRequestJobs == MaxWorkflowJobs

MaxWorkflows == MaxWorkflowJobs

WorkflowInit == Start(WorkflowClients) /\ task = NoTask

\* jobs of the requests in progress that are not yet in JOBS
RECURSIVE JobsToCome(_)
JobsToCome(requests) ==
    IF requests = <<>> THEN 0
    ELSE Head(requests).left
         + (IF Head(requests).pc = "add_job" THEN 1 ELSE 0)
         + JobsToCome(Tail(requests))

\* create_workflow lines 117, 100: the loop over request.jobs has ended when no
\* job request is left
LoopEnds_Early(left) == left <= 1

LoopEnds(left) == left = 0

\* create_workflow lines 97-112: Workflow(...), then Job(...) for the first job
\* request, up to the lock of add_job (of add_workflow when the request is empty)
CreateWorkflow(user_id, n) ==
    /\ Len(creating) < MaxRequests
    /\ Cardinality(WORKFLOWS) + Len(creating) < MaxWorkflows
    /\ user_id <= clients.users
    /\ Len(JOBS) + JobsToCome(creating) + n <= clients.jobs
    /\ creating' = Append(creating,
           [workflow_id |-> NewWorkflowId, user_id |-> user_id,
            jobs |-> <<>>,            \* workflow.jobs, the jobs that are in JOBS
            requested |-> n,          \* len(request.jobs)
            left |-> IF LoopEnds(n) THEN 0 ELSE n - 1,
            pc |-> IF LoopEnds(n) THEN "add_workflow" ELSE "add_job"])
    /\ UNCHANGED <<JOBS, BRANCH_QUEUES, RUNNING_JOBS, cancelling, finishing, clients,
                   task, WORKFLOWS>>

\* add_job lines 31-37, then create_workflow up to the lock of enqueue_job; the
\* workflow is not in WORKFLOWS yet, so lines 34-37 add nothing to its list
AddJob(r, b) ==
    /\ r \in DOMAIN creating
    /\ creating[r].pc = "add_job"
    /\ b <= Len(BRANCH_QUEUES) + 1
    /\ LET id == Len(JOBS) + 1
       IN  /\ JOBS' = Append(JOBS, NewJob(creating[r].user_id, b))
           /\ creating' = [creating EXCEPT ![r].jobs = Append(@, id),
                                           ![r].pc = "enqueue_job"]
    /\ UNCHANGED <<BRANCH_QUEUES, RUNNING_JOBS, cancelling, finishing, clients, task,
                   WORKFLOWS>>

\* enqueue_job lines 60-63, then the next iteration up to the lock of add_job, or
\* the end of the loop up to the lock of add_workflow
EnqueueJob(r) ==
    /\ r \in DOMAIN creating
    /\ creating[r].pc = "enqueue_job"
    /\ LET id == creating[r].jobs[Len(creating[r].jobs)]
           b == JOBS[id].branch
           queues == IF b \in DOMAIN BRANCH_QUEUES
                     THEN BRANCH_QUEUES
                     ELSE BRANCH_QUEUES \o [k \in 1..(b - Len(BRANCH_QUEUES)) |-> <<>>]
       IN  BRANCH_QUEUES' = [queues EXCEPT ![b] = Enqueue(@, id)]
    /\ creating' = IF LoopEnds(creating[r].left)
                   THEN [creating EXCEPT ![r].pc = "add_workflow"]
                   ELSE [creating EXCEPT ![r].pc = "add_job", ![r].left = @ - 1]
    /\ UNCHANGED <<JOBS, RUNNING_JOBS, cancelling, finishing, clients, task, WORKFLOWS>>

\* add_workflow lines 22-26: the workflow becomes visible with its list of jobs
\* (line 26 stores again the jobs that add_job stored); the handler returns
AddWorkflow(r) ==
    /\ r \in DOMAIN creating
    /\ creating[r].pc = "add_workflow"
    /\ WORKFLOWS' = WORKFLOWS \cup
           {NewWorkflow(creating[r].workflow_id, creating[r].user_id,
                        creating[r].jobs, creating[r].requested)}
    /\ creating' = [k \in 1..(Len(creating) - 1) |->
                       IF k < r THEN creating[k] ELSE creating[k + 1]]
    /\ UNCHANGED <<JOBS, BRANCH_QUEUES, RUNNING_JOBS, cancelling, finishing, clients,
                   task>>

WorkflowNext ==
    \/ \E u \in Users, n \in 0..MaxRequestJobs : CreateWorkflow(u, n)
    \/ \E r \in 1..MaxRequests, b \in Branches : AddJob(r, b)
    \/ \E r \in 1..MaxRequests : EnqueueJob(r)
    \/ \E r \in 1..MaxRequests : AddWorkflow(r)
    \/ SchedulerCycle
    \/ \E j \in JobIds, u \in Users : CancelJob(j, u)
    \/ \E j \in JobIds : CancelRemove(j)
    \/ \E j \in JobIds, raised \in BOOLEAN : RunJobEnd(j, raised)
    \/ \E j \in JobIds : RunJobRelease(j)

WorkflowSpec == WorkflowInit /\ [][WorkflowNext]_vars

(***************************************************************************)
(* Properties                                                              *)
(***************************************************************************)

\* the users that own the jobs in the running set
RunningUsers == {JOBS[r].user_id : r \in RUNNING_JOBS}

\* no job of the branch is in the running set
BranchIdle(branch) == \A r \in RUNNING_JOBS : JOBS[r].branch # branch

\* admitting a job of this user keeps the running users within the limit
UserFits(user_id) ==
    user_id \in RunningUsers \/ Cardinality(RunningUsers) < ACTIVE_USERS_LIMIT

\* the job is PENDING and queued, its branch is idle and its user fits
Admissible(j) ==
    /\ HasJob(j)
    /\ JOBS[j].status = "PENDING"
    /\ InQueue(BRANCH_QUEUES[JOBS[j].branch], j)
    /\ BranchIdle(JOBS[j].branch)
    /\ UserFits(JOBS[j].user_id)

\* the head of the branch's queue is an admissible job
HeadAdmissible(branch) ==
    /\ branch \in DOMAIN BRANCH_QUEUES
    /\ BRANCH_QUEUES[branch] # <<>>
    /\ Admissible(Head(BRANCH_QUEUES[branch]))

SlotFree == Cardinality(RUNNING_JOBS) < MAX_WORKERS

Terminal == {"SUCCEEDED", "FAILED", "CANCELLED"}

\* C1: the jobs in the running set belong to at most ACTIVE_USERS_LIMIT distinct
\* users, in every reachable state.
C1_ActiveUsersWithinLimit ==
    Cardinality(ActiveUsersOf(RUNNING_JOBS)) <= ACTIVE_USERS_LIMIT

\* C2: the running set holds at most MAX_WORKERS job ids, in every reachable
\* state.
C2_RunningWithinMaxWorkers ==
    Cardinality(RUNNING_JOBS) <= MAX_WORKERS

\* MAX_WORKERS jobs run and a further job, admissible but for the worker limit,
\* waits at the head of its queue
C2_Witness_FullWithWaitingHead ==
    /\ Cardinality(RUNNING_JOBS) = MAX_WORKERS
    /\ \E b \in Branches : HeadAdmissible(b)

\* C3: for every branch, at most one job of that branch is in the running set,
\* in every reachable state (so no job is admitted while another job of its
\* branch holds a running slot).
C3_OneRunningJobPerBranch ==
    \A j1 \in RUNNING_JOBS, j2 \in RUNNING_JOBS :
        (HasJob(j1) /\ HasJob(j2) /\ JOBS[j1].branch = JOBS[j2].branch) => j1 = j2

\* a job runs, the next job of its branch is PENDING at the head of the queue,
\* and neither the worker limit nor the user rule holds it back
C3_Witness_SecondJobWaits ==
    \E r \in RUNNING_JOBS :
        LET b == JOBS[r].branch
        IN  /\ BRANCH_QUEUES[b] # <<>>
            /\ JOBS[Head(BRANCH_QUEUES[b])].status = "PENDING"
            /\ SlotFree
            /\ UserFits(JOBS[Head(BRANCH_QUEUES[b])].user_id)

\* C4: jobs of a branch are admitted in the order they were enqueued: in a step
\* that takes a job from PENDING to RUNNING, no job enqueued earlier on the same
\* branch is still PENDING (job ids follow the order of enqueue).
C4_BranchFifoAdmission ==
    [][\A j2 \in DOMAIN JOBS :
          (JOBS[j2].status = "PENDING" /\ JOBS'[j2].status = "RUNNING")
          => \A j1 \in 1..(j2 - 1) :
                 JOBS[j1].branch = JOBS[j2].branch => JOBS[j1].status # "PENDING"
      ]_vars

\* three jobs of one branch: the first has run to its end, the second was
\* cancelled, the third has been admitted
C4_Witness_ThirdAdmittedAfterFirst ==
    \E j1 \in DOMAIN JOBS, j2 \in DOMAIN JOBS, j3 \in DOMAIN JOBS :
        /\ j1 < j2 /\ j2 < j3
        /\ JOBS[j1].branch = JOBS[j2].branch /\ JOBS[j2].branch = JOBS[j3].branch
        /\ JOBS[j1].status \in {"SUCCEEDED", "FAILED"}
        /\ JOBS[j2].status = "CANCELLED"
        /\ JOBS[j3].status = "RUNNING"

\* C5: a CANCELLED job is not in the running set and stays CANCELLED and out of
\* the running set in every later step.
C5_CancelledNeverRuns ==
    [][\A j \in DOMAIN JOBS :
          JOBS[j].status = "CANCELLED"
          => /\ JOBS'[j].status = "CANCELLED"
             /\ j \notin RUNNING_JOBS
             /\ j \notin RUNNING_JOBS'
      ]_vars

\* a cancel request set CANCELLED on a queued job and, before it removed the id
\* from the queue, a scheduler cycle met the id at the head and dropped it
C5_Witness_CancelledHeadEvicted ==
    \E j \in cancelling :
        /\ JOBS[j].status = "CANCELLED"
        /\ ~InQueue(BRANCH_QUEUES[JOBS[j].branch], j)

\* C6: a job's status changes only along PENDING -> RUNNING, PENDING ->
\* CANCELLED, RUNNING -> SUCCEEDED and RUNNING -> FAILED, and the record of a
\* job in a terminal status (status, progress, error message) never changes.
C6_StatusTransitions ==
    [][\A j \in DOMAIN JOBS :
          /\ \/ JOBS'[j].status = JOBS[j].status
             \/ <<JOBS[j].status, JOBS'[j].status>> \in
                    { <<"PENDING", "RUNNING">>, <<"PENDING", "CANCELLED">>,
                      <<"RUNNING", "SUCCEEDED">>, <<"RUNNING", "FAILED">> }
          /\ JOBS[j].status \in Terminal => JOBS'[j] = JOBS[j]
      ]_vars

\* one job in each terminal status
C6_Witness_AllTerminalStatuses ==
    \E j1 \in DOMAIN JOBS, j2 \in DOMAIN JOBS, j3 \in DOMAIN JOBS :
        /\ JOBS[j1].status = "SUCCEEDED" /\ Same(JOBS[j1].progress, Progress(100, 1))
        /\ JOBS[j2].status = "FAILED" /\ JOBS[j2].error_message # "None"
        /\ JOBS[j3].status = "CANCELLED"

C8_EveryJobTerminates ==
    []<>(\A j \in DOMAIN JOBS : JOBS[j].status \in Terminal)

\* MAX_WORKERS + 1 jobs were submitted and all have run to SUCCEEDED
C8_Witness_AllDrained ==
    /\ Len(JOBS) = MAX_WORKERS + 1
    /\ \A j \in DOMAIN JOBS : JOBS[j].status = "SUCCEEDED"
    /\ RUNNING_JOBS = {}

\* C9: a job's progress never decreases and lies in [0, 100], and every tile
\* the routine has passed is counted exactly once: it is in tiles_processed or
\* its inference is still pending, so tiles_processed never exceeds total_tiles.
C9_ProgressMonotoneBounded ==
    /\ [](\A j \in DOMAIN JOBS :
              /\ Leq(Progress(0, 1), JOBS[j].progress)
              /\ Leq(JOBS[j].progress, Progress(100, 1)))
    /\ [](task.pc \notin {"none", "created"}
              => /\ task.tiles_processed + Cardinality(task.pending_tasks)
                        = task.next - 1
                 /\ task.tiles_processed <= task.total_tiles)
    /\ [][\A j \in DOMAIN JOBS : Leq(JOBS[j].progress, JOBS'[j].progress)]_vars

\* a cell-segmentation job of at least three tiles has SUCCEEDED: some tiles
\* were skipped or failed, some gave polygons, all are counted
C9_Witness_CellJobAllTilesCounted ==
    /\ task.pc = "returned"
    /\ task.job_type = "CELL_SEGMENTATION"
    /\ task.total_tiles >= 3
    /\ task.tiles_processed = task.total_tiles
    /\ task.polygons # {}
    /\ Cardinality(task.polygons) < task.total_tiles
    /\ JOBS[TaskJob].status = "SUCCEEDED"
    /\ Same(JOBS[TaskJob].progress, Progress(100, 1))

\* C10: a job in a terminal status has progress 100 if and only if its status
\* is SUCCEEDED.
C10_FullProgressIffSucceeded ==
    \A j \in DOMAIN JOBS :
        JOBS[j].status \in Terminal
        => (Same(JOBS[j].progress, Progress(100, 1)) <=> JOBS[j].status = "SUCCEEDED")

\* the image of the job has no tile: W = 0 or H = 0
EmptyImage == task.pc # "none" /\ (task.width = 0 \/ task.height = 0)

\* C11: a job on an empty image whose routine has returned ends SUCCEEDED with
\* progress 100 and its result artifact written (with an empty list).
C11_EmptyImageSucceedsWithArtifact ==
    (EmptyImage /\ task.pc = "returned" /\ JOBS[TaskJob].status \in Terminal)
    => /\ JOBS[TaskJob].status = "SUCCEEDED"
       /\ Same(JOBS[TaskJob].progress, Progress(100, 1))
       /\ task.artifact = "written"

\* C12: a cell-segmentation job whose image opened and whose artifact was
\* written, whatever tiles failed on the way (read, tissue test, inference),
\* ends SUCCEEDED with progress 100, every tile counted once, and the artifact
\* holds the polygons of exactly the tiles that neither failed nor were
\* skipped as background.
C12_TileFailureNotFatal ==
    (/\ task.pc = "returned"
     /\ task.job_type = "CELL_SEGMENTATION"
     /\ task.total_tiles > 0
     /\ JOBS[TaskJob].status \in Terminal)
    => /\ JOBS[TaskJob].status = "SUCCEEDED"
       /\ Same(JOBS[TaskJob].progress, Progress(100, 1))
       /\ task.tiles_processed = task.total_tiles
       /\ task.artifact = "written"
       /\ task.polygons = (1..task.total_tiles) \ (task.logged \cup task.background)

\* a cell-segmentation job in which two tiles or more failed and two or more
\* gave polygons has SUCCEEDED
C12_Witness_FailedTilesSkipped ==
    /\ task.pc = "returned"
    /\ task.job_type = "CELL_SEGMENTATION"
    /\ Cardinality(task.logged) >= 2
    /\ Cardinality(task.polygons) >= 2
    /\ JOBS[TaskJob].status = "SUCCEEDED"
    /\ task.artifact = "written"

\* the cancel request for job j was accepted and its handler has returned
CancelCompleted(j) ==
    /\ HasJob(j)
    /\ JOBS[j].status = "CANCELLED"
    /\ j \notin cancelling

\* C13: once the cancel of an enqueued PENDING job has completed, the job is in
\* no branch queue, its status is CANCELLED and stays so, it is not started and
\* no result artifact is written for it.
C13_CancelledJobLeavesNoTrace ==
    /\ [](CancelCompleted(TaskJob)
             => /\ \A b \in DOMAIN BRANCH_QUEUES : ~InQueue(BRANCH_QUEUES[b], TaskJob)
                /\ TaskJob \notin RUNNING_JOBS
                /\ task.pc = "created"
                /\ task.artifact = "none")
    /\ [][CancelCompleted(TaskJob) => CancelCompleted(TaskJob)']_vars

\* the job was enqueued, then cancelled, the handler has returned and the
\* scheduler has run on the emptied queue
C13_Witness_CancelCompleted ==
    /\ CancelCompleted(TaskJob)
    /\ Len(BRANCH_QUEUES) = 1
    /\ BRANCH_QUEUES[1] = <<>>
    /\ RUNNING_JOBS = {}

\* C14: a job whose run_job has set the final status, whatever the outcome, is
\* waiting for the lock to leave the running set, and under a fair event loop
\* it leaves it: again and again the running set holds no finished job, so no
\* finished job keeps its running slot, branch or user slot forever.
C14_FinishedJobLeavesRunningSet ==
    /\ [](\A j \in RUNNING_JOBS : JOBS[j].status \in Terminal => j \in finishing)
    /\ []<>(\A j \in RUNNING_JOBS : JOBS[j].status \notin Terminal)

\* the first job of a branch raised and has left the running set; the next job
\* of the same branch runs in its place
C14_Witness_FailedJobReleasedSlot ==
    \E j1, j2 \in DOMAIN JOBS :
        /\ JOBS[j1].status = "FAILED"
        /\ j1 \notin RUNNING_JOBS /\ j1 \notin finishing
        /\ JOBS[j2].branch = JOBS[j1].branch
        /\ j2 \in RUNNING_JOBS /\ JOBS[j2].status = "RUNNING"

\* C15: a cancel request against a job that is not PENDING changes nothing
\* (status, progress, error message, queues, running set): such a step leaves
\* every variable as it was, no job becomes CANCELLED from another status than
\* PENDING, and no handler goes on to the queue removal for such a job.
C15_CancelOfNonPendingChangesNothing ==
    [][/\ \A j \in DOMAIN JOBS, u \in Users :
              (JOBS[j].status # "PENDING" /\ CancelJob(j, u)) => UNCHANGED vars
       /\ \A j \in DOMAIN JOBS :
              (JOBS[j].status # "PENDING" /\ JOBS'[j].status = "CANCELLED")
              => JOBS'[j] = JOBS[j]
       /\ \A j \in cancelling' \ cancelling : JOBS[j].status = "PENDING"]_vars

\* jobs in each status that a cancel request is rejected for: one RUNNING, one
\* SUCCEEDED, one FAILED, one CANCELLED
C15_Witness_JobsInEveryOtherStatus ==
    \E j1, j2, j3, j4 \in DOMAIN JOBS :
        /\ JOBS[j1].status = "RUNNING" /\ j1 \in RUNNING_JOBS
        /\ JOBS[j2].status = "SUCCEEDED"
        /\ JOBS[j3].status = "FAILED"
        /\ JOBS[j4].status = "CANCELLED" /\ j4 \notin cancelling

Ceil(a, b) == (a + b - 1) \div b

\* C16: for W > 0 and H > 0, tile size 512 and overlap 64, generate_tiles
\* returns ceil(W/448) * ceil(H/448) tiles, each inside the image, at least one
\* pixel wide and high, with w = min(512, W - x) and h = min(512, H - y).
C16_TileCountAndBounds ==
    (task.pc = "tiled" /\ task.width > 0 /\ task.height > 0)
    => /\ Len(task.tiles) = Ceil(task.width, 448) * Ceil(task.height, 448)
       /\ \A k \in DOMAIN task.tiles :
              LET t == task.tiles[k]
              IN  /\ 0 <= t.x /\ t.x + t.w <= task.width
                  /\ 0 <= t.y /\ t.y + t.h <= task.height
                  /\ t.w >= 1 /\ t.h >= 1
                  /\ t.w = Min(512, task.width - t.x)
                  /\ t.h = Min(512, task.height - t.y)

\* 1024 x 1024 gives 9 tiles, the last one clipped to 128 x 128
C16_Witness_NineTiles ==
    /\ task.pc = "tiled"
    /\ task.width = 1024 /\ task.height = 1024
    /\ Len(task.tiles) = 9
    /\ task.tiles[9] = [x |-> 896, y |-> 896, w |-> 128, h |-> 128]

\* C17 as stated: the running set is exactly the set of the jobs whose status
\* is RUNNING.
C17_RunningSetIsRunningJobs ==
    RUNNING_JOBS = {j \in DOMAIN JOBS : JOBS[j].status = "RUNNING"}

\* C17, amended: every job whose status is RUNNING is in the running set, and
\* every id in the running set is a job that is RUNNING, or one its run_job has
\* just set SUCCEEDED or FAILED and that waits for the lock to leave the set.
C17_RunningSetIsRunningOrFinishing ==
    /\ \A j \in DOMAIN JOBS : JOBS[j].status = "RUNNING" => j \in RUNNING_JOBS
    /\ \A j \in RUNNING_JOBS :
           /\ HasJob(j)
           /\ \/ JOBS[j].status = "RUNNING" /\ j \notin finishing
              \/ JOBS[j].status \in {"SUCCEEDED", "FAILED"} /\ j \in finishing

\* one job has SUCCEEDED and is still in the running set, next to a job that
\* is RUNNING
C17_Witness_SucceededStillInRunningSet ==
    \E j1, j2 \in RUNNING_JOBS :
        /\ JOBS[j1].status = "SUCCEEDED" /\ j1 \in finishing
        /\ JOBS[j2].status = "RUNNING"

\* C18: a job id is in at most one place: an id in a branch queue is not in the
\* running set, it is in the queue of its own branch only, and once.
C18_JobInAtMostOnePlace ==
    \A b \in DOMAIN BRANCH_QUEUES :
        \A k \in DOMAIN BRANCH_QUEUES[b] :
            LET j == BRANCH_QUEUES[b][k]
            IN  /\ HasJob(j)
                /\ j \notin RUNNING_JOBS
                /\ JOBS[j].branch = b
                /\ \A k2 \in DOMAIN BRANCH_QUEUES[b] :
                       BRANCH_QUEUES[b][k2] = j => k2 = k

\* a job runs while two later jobs of its branch wait in the branch queue
C18_Witness_RunningAndTwoQueued ==
    \E b \in DOMAIN BRANCH_QUEUES, j \in RUNNING_JOBS :
        /\ JOBS[j].branch = b
        /\ JOBS[j].status = "RUNNING"
        /\ Len(BRANCH_QUEUES[b]) = 2

\* C19: cancel is one atomic step: no state can be observed in which a job is
\* CANCELLED and still in a branch queue.
C19_CancelIsAtomic ==
    \A j \in DOMAIN JOBS :
        JOBS[j].status = "CANCELLED"
        => \A b \in DOMAIN BRANCH_QUEUES : ~InQueue(BRANCH_QUEUES[b], j)

\* C20: a job becomes FAILED only through a job-fatal error (the image cannot
\* be opened, results/ cannot be created, the artifact cannot be written); a
\* failure on a single tile, in either routine, does not make the job FAILED.
C20_FailedOnlyByFatalError ==
    (task.pc # "none" /\ HasJob(TaskJob) /\ JOBS[TaskJob].status = "FAILED")
    => task.raised_at \in {"open", "mkdir", "write"}

\* C21: in a cell-segmentation job at most 4 tile inferences are pending at any
\* instant, a tile is submitted only while fewer than 4 are pending, and the
\* artifact is written only after every submitted inference has completed and
\* has been counted.
C21_InferenceBoundedAndDrained ==
    /\ [](task.pc \notin {"none", "created"}
              => /\ Cardinality(task.pending_tasks) <= 4
                 /\ (task.pc = "write" \/ task.artifact # "none")
                        => /\ task.pending_tasks = {}
                           /\ task.tiles_processed = task.total_tiles)
    /\ [][(task.pc = "tiles" /\ task'.pending_tasks \ task.pending_tasks # {})
              => Cardinality(task.pending_tasks) < 4]_vars

\* four inferences are pending, the routine waits for the first to complete
\* and a further tile is still to come
C21_Witness_FourPendingOneToCome ==
    /\ task.pc = "tiles"
    /\ task.job_type = "CELL_SEGMENTATION"
    /\ Cardinality(task.pending_tasks) = 4
    /\ task.waiting = "FIRST_COMPLETED"
    /\ task.next <= task.total_tiles

\* the ids of all registered workflows' member lists, one after the other
RECURSIVE Members(_)
Members(workflows) ==
    IF workflows = {} THEN <<>>
    ELSE LET w == CHOOSE x \in workflows : TRUE
         IN  w.jobs \o Members(workflows \ {w})

\* C22: a workflow that is visible in WORKFLOWS has every job submitted with it
\* in its member list and in the jobs map, each once (and in no other workflow),
\* whatever the scheduler did in between.
C22_VisibleWorkflowIsComplete ==
    /\ \A w \in WORKFLOWS :
           /\ Len(w.jobs) = w.requested
           /\ \A k \in DOMAIN w.jobs :
                  /\ HasJob(w.jobs[k])
                  /\ JOBS[w.jobs[k]].user_id = w.user_id
    /\ \A k1, k2 \in DOMAIN Members(WORKFLOWS) :
           Members(WORKFLOWS)[k1] = Members(WORKFLOWS)[k2] => k1 = k2
    /\ \A w1, w2 \in WORKFLOWS : w1.workflow_id = w2.workflow_id => w1 = w2

\* a workflow of two jobs is visible; its first job was started by the
\* scheduler before the workflow was registered, while another request is
\* still in progress
C22_Witness_JobRanBeforeWorkflowVisible ==
    \E w \in WORKFLOWS :
        /\ Len(w.jobs) = 2
        /\ JOBS[w.jobs[1]].status \in {"SUCCEEDED", "FAILED"}
        /\ JOBS[w.jobs[2]].status = "PENDING"
        /\ creating # <<>>

\* the queue entry refers to a missing job or to a job that is not PENDING
StaleEntry(id) == ~HasJob(id) \/ JOBS[id].status # "PENDING"

\* C23: a scheduler cycle that reaches branch selection (running set below
\* MAX_WORKERS) evicts from every branch queue its stale head entries, whether
\* or not the branch is busy: no entry of the stale prefix of a queue is still
\* in that queue after the cycle.
C23_CycleEvictsStaleHeads ==
    [][(SchedulerCycle /\ BRANCH_QUEUES # <<>> /\ ~WorkersFull(RUNNING_JOBS))
           => \A b \in DOMAIN BRANCH_QUEUES :
                  \A k \in DOMAIN BRANCH_QUEUES[b] :
                      (\A i \in 1..k : StaleEntry(BRANCH_QUEUES[b][i]))
                      => ~InQueue(BRANCH_QUEUES'[b], BRANCH_QUEUES[b][k])]_vars

\* x is before y in the queue
Precedes(queue, x, y) ==
    \E k1, k2 \in DOMAIN queue : k1 < k2 /\ queue[k1] = x /\ queue[k2] = y

\* C24: a job that is PENDING and in its branch queue is, after any step,
\* admitted (RUNNING, in the running set), or cancelled, or still PENDING in the
\* same queue and in the same order with respect to the entries that remain:
\* neither the eviction of stale entries nor the cancel of another job removes it.
C24_PendingJobStaysQueued ==
    [][\A b \in DOMAIN BRANCH_QUEUES :
           \A k \in DOMAIN BRANCH_QUEUES[b] :
               LET j == BRANCH_QUEUES[b][k]
               IN  JOBS[j].status = "PENDING"
                   => \/ JOBS'[j].status = "RUNNING" /\ j \in RUNNING_JOBS'
                      \/ JOBS'[j].status = "CANCELLED"
                      \/ /\ JOBS'[j].status = "PENDING"
                         /\ InQueue(BRANCH_QUEUES'[b], j)
                         /\ \A k2 \in DOMAIN BRANCH_QUEUES[b] :
                                LET i == BRANCH_QUEUES[b][k2]
                                IN  InQueue(BRANCH_QUEUES'[b], i)
                                    => (Precedes(BRANCH_QUEUES[b], i, j)
                                        <=> Precedes(BRANCH_QUEUES'[b], i, j))]_vars

\* three jobs of one branch: the first was evicted by the scheduler while its
\* cancel waits for the lock, the second was removed by its cancel, the third
\* is still PENDING in the queue
C24_Witness_ThirdJobSurvives ==
    \E b \in DOMAIN BRANCH_QUEUES, j1, j2, j3 \in DOMAIN JOBS :
        /\ JOBS[j1].branch = b /\ JOBS[j2].branch = b /\ JOBS[j3].branch = b
        /\ JOBS[j1].status = "CANCELLED" /\ j1 \in cancelling
        /\ JOBS[j2].status = "CANCELLED" /\ j2 \notin cancelling
        /\ JOBS[j3].status = "PENDING"
        /\ BRANCH_QUEUES[b] = <<j3>>
====
